---- MODULE Spec2Model ----
(***************************************************************************)
(* Model of the CRM backend's authentication and credential lifecycle:     *)
(* routers/auth.py, routers/users.py, dependencies.py, utils/auth_utils.py *)
(* and db.py.  The persisted tables are sets of rows; every HTTP handler   *)
(* is one action of Spec (requests served one after the other); SpecConc   *)
(* runs two signup requests statement by statement, each on its own        *)
(* connection, under read-committed isolation.  SpecTime lets the clock    *)
(* advance past the expiry of access tokens; SpecForgot is the             *)
(* forgot-password flow; SpecSub is routers/tenants.py with the            *)
(* subscription upsert run statement by statement.                         *)
(***************************************************************************)
EXTENDS Integers, Sequences, FiniteSets, TLC

\* ------------------------------------------------------------------ bounds
MaxUsers == 2
MaxTenants == 2
\* One more than the tenants: two concurrent upserts can each insert a row.
MaxSubscriptions == 3
\* Access tokens issued in one run (login and signup issue none beyond it).
MaxTokens == 2

Emails == {"a@x", "b@x"}
\* "" is the empty password, for which get_password_hash_input returns "".
Passwords == {"", "pw"}
Roles == {"ADMIN", "SALES"}
Plans == {"basic"}
\* body.plan of POST /tenants and POST /tenants/{id}/subscription (SpecSub);
\* "gold" is a plan the limit table does not list.
SubPlans == {"pro", "enterprise", "gold"}

\* Rows of password_reset_tokens in one run (SpecForgot).
MaxResetTokens == 2

\* Clients that send signup requests concurrently (SpecConc).
Clients == {1, 2}

UserIds == 1..MaxUsers
TenantIds == 1..MaxTenants

\* ACCESS_TOKEN_EXPIRE_MINUTES (default), and timedelta(hours=1) in minutes.
ACCESS_TOKEN_EXPIRE_MINUTES == 1440
RESET_TOKEN_MINUTES == 60
SECRET_KEY == "JWT_SECRET"

\* The instants at which requests arrive, in minutes (SpecTime, SpecForgot), and
\* the last of them.
Horizon == 1441
Instants == {0, 60, ACCESS_TOKEN_EXPIRE_MINUTES, Horizon}


\* pool.SimpleConnectionPool(1, 10, dsn=dsn): the most connections one pool hands out.
PoolMax == 10
\* Pool objects constructed in one run, and requests in flight at once.
MaxPools == 2
MaxInFlight == 12
Pools == 1..MaxPools
\* Where a request stands in get_conn: "ready" outside any block, "get_pool" after
\* it read _connection_pool as None and before it assigns the pool it constructs,
\* "getconn" with pool_obj bound, "yield" inside the with block holding a connection.
Positions ==
    {[pc |-> q, pool_obj |-> 0] : q \in {"ready", "get_pool"}}
        \cup {[pc |-> q, pool_obj |-> p] : q \in {"getconn", "yield"}, p \in Pools}

VARIABLES
    tenants,        \* table tenants: set of [id, plan]
    users,          \* table users: set of [id, tenant_id, email, password_hash, role, must_reset_password]
    subscriptions,  \* table subscriptions: set of [id, tenant_id, plan, max_users]
    nextId,         \* ids handed out so far, per table
    tokens,         \* access tokens signed so far (their claims)
    resp,           \* what the last request's caller received: [status, detail]
    last,           \* the last request as served: [op, target (the user row it looked
                    \* up or wrote), body (the JSON it returned)]
    conns,          \* per client, its request in progress and pooled connection
    now,            \* datetime.utcnow(), in minutes
    reset_tokens,   \* table password_reset_tokens: set of [user_id, token, expires_at]
    outbox,         \* calls of send_password_reset_email: sequence of [email, token, sent]
    accounts,       \* table accounts: set of [id, tenant_id, name, status]
    connection_pool, \* db._connection_pool: the pool object in use, 0 for None
    used,           \* per pool object constructed, the connections checked out of it
    inflight        \* requests in flight: how many stand at each position of get_conn

db == <<tenants, users, subscriptions, nextId>>
\* The clock, what forgot-password writes, and the entity tables.
dbpool == <<connection_pool, used, inflight>>
mail == <<now, reset_tokens, outbox, accounts, connection_pool, used, inflight>>
vars == <<tenants, users, subscriptions, nextId, tokens, resp, last, conns,
          now, reset_tokens, outbox, accounts, connection_pool, used, inflight>>

\* ---------------------------------------------------------- credential hasher
\* hashlib.sha256(...).hexdigest(): an injective map to a different string.
Sha256Hex(p) == "sha256(" \o p \o ")"

GetPasswordHashInput(password) == IF password = "" THEN "" ELSE Sha256Hex(password)

\* passlib's bcrypt: the salt does not matter to verify, the input does.
BcryptHash(secret) == "$2b$" \o secret
BcryptVerify(secret, hash) == hash = BcryptHash(secret)

\* body.password.encode('utf-8')[:72].decode('utf-8', 'ignore')
Truncate72(p) == IF Len(p) <= 72 THEN p ELSE SubSeq(p, 1, 72)

\* --------------------------------------------------------------------- rows
NoPrincipal == [id |-> 0, tenant_id |-> 0, email |-> "", role |-> ""]
\* The JSON parts of a response body; Null is an absent part.
Null == [id |-> 0]
NoBody == [user |-> Null, tenant |-> Null]

UserById(id) == CHOOSE u \in users : u.id = id
UserExists(id) == \E u \in users : u.id = id
UserByEmail(email) == CHOOSE u \in users : u.email = email
EmailRegistered(email) == \E u \in users : u.email = email
TenantExists(id) == \E t \in tenants : t.id = id

EmptyRows == [tenants |-> {}, users |-> {}, subscriptions |-> {}, accounts |-> {}]

Respond(op, status, detail, target) ==
    /\ resp' = [status |-> status, detail |-> detail]
    /\ last' = [op |-> op, target |-> target, body |-> NoBody]

\* return {"user": user, "tenant": tenant, "accessToken": token}
RespondBody(op, status, target, body) ==
    /\ resp' = [status |-> status, detail |-> ""]
    /\ last' = [op |-> op, target |-> target, body |-> body]

\* _row_to_user
RowToUser(row) ==
    [id |-> row.id, tenantId |-> row.tenant_id, email |-> row.email, role |-> row.role]

\* _row_to_tenant: "plan": "enterprise"  (hardcoded)
RowToTenant(row) == [id |-> row.id, plan |-> "enterprise"]

\* ------------------------------------------------------------- token service
\* jose's HS256 signature: it is fixed by the key and the signed payload.
Sign(payload, key) == <<key, payload>>

\* The claims a token string carries, and the string made of claims and signature.
Payload(t) == [f \in DOMAIN t \ {"sig"} |-> t[f]]
JwtEncode(claims, key) ==
    [f \in DOMAIN claims \cup {"sig"} |->
        IF f = "sig" THEN Sign(claims, key) ELSE claims[f]]

\* jwt.decode: the signature is checked first, then `exp < now` raises
\* ExpiredSignatureError; on success the payload is returned.
JwtDecode(t, key) ==
    IF t.sig # Sign(Payload(t), key)
    THEN [ok |-> FALSE, error |-> "bad-signature", payload |-> <<>>]
    ELSE IF t.exp < now
    THEN [ok |-> FALSE, error |-> "expired", payload |-> <<>>]
    ELSE [ok |-> TRUE, error |-> "", payload |-> Payload(t)]

\* A bearer string signed with a secret that is not the server's.
BadToken ==
    JwtEncode([sub |-> 0, tenant_id |-> 0, email |-> "", role |-> "forged", exp |-> 0],
              "not the secret")

\* Mutant of CreateAccessToken: the token never expires for the decoder's clock.
CreateAccessTokenNoExpiry(u) ==
    JwtEncode([sub |-> u.id, tenant_id |-> u.tenant_id, email |-> u.email,
               role |-> u.role, exp |-> now + 2 * Horizon], SECRET_KEY)

\* create_access_token({"sub", "tenant_id", "email", "role"}): exp is added.
CreateAccessToken(u) ==
    JwtEncode([sub |-> u.id, tenant_id |-> u.tenant_id, email |-> u.email,
               role |-> u.role, exp |-> now + ACCESS_TOKEN_EXPIRE_MINUTES], SECRET_KEY)
\* The token handed to the caller joins the signed tokens.
Issue(u) ==
    /\ tokens' = tokens \cup {CreateAccessToken(u)}
    /\ Cardinality(tokens') <= MaxTokens
\* Mutant of VerifyAccessToken: the payload is read without checking the signature.
VerifyAccessTokenUnsigned(t) == ~(t.exp < now)

\* verify_access_token: raises JWTError (FALSE) or returns the payload.
VerifyAccessToken(t) == JwtDecode(t, SECRET_KEY).ok

Bearers == tokens \cup {BadToken}

\* -------------------------------------------------------- identity resolver
\* Mutant of PrincipalOfRow: the principal is read from the token's claims.
PrincipalOfClaims(t, row) ==
    [id |-> t.sub, tenant_id |-> t.tenant_id, email |-> t.email, role |-> t.role]

\* return {"id": row[0], "tenant_id": row[1], "email": row[2], "role": row[3]}
PrincipalOfRow(t, row) ==
    [id |-> row.id, tenant_id |-> row.tenant_id, email |-> row.email, role |-> row.role]

\* Mutant of GetCurrentUser: the claims of a valid token are trusted as they are,
\* without the lookup of the user row.
GetCurrentUserTrustsClaims(t) ==
    IF ~VerifyAccessToken(t)
    THEN [ok |-> FALSE, detail |-> "Invalid or expired token", principal |-> NoPrincipal]
    ELSE [ok |-> TRUE, detail |-> "", principal |-> PrincipalOfClaims(t, t)]

GetCurrentUser(t) ==
    IF ~VerifyAccessToken(t)
    THEN [ok |-> FALSE, detail |-> "Invalid or expired token", principal |-> NoPrincipal]
    ELSE IF t.sub = 0
    THEN [ok |-> FALSE, detail |-> "Token missing subject", principal |-> NoPrincipal]
    ELSE IF ~UserExists(t.sub)
    THEN [ok |-> FALSE, detail |-> "User not found", principal |-> NoPrincipal]
    ELSE [ok |-> TRUE, detail |-> "", principal |-> PrincipalOfRow(t, UserById(t.sub))]

Unauthorized(op, t) ==
    /\ Respond(op, 401, GetCurrentUser(t).detail, 0)
    /\ UNCHANGED <<db, tokens, conns>>

\* ------------------------------------------------------------ POST /auth/login
LoginFailure == [status |-> 401, detail |-> "Invalid email or password"]

\* Mutant of LoginError: an unknown email is told apart from a wrong password.
LoginErrorTellsUnknown(found) ==
    IF found = 0 THEN [status |-> 404, detail |-> "User not found"] ELSE LoginFailure

\* raise HTTPException(status_code=401, detail="Invalid email or password");
\* found is the id of the row the email lookup returned, 0 for none.
LoginError(found) == LoginFailure

\* `not row or not pwd_ctx.verify(pw_input, row[4])`
LoginRejects(email, password) ==
    \/ ~EmailRegistered(email)
    \/ ~BcryptVerify(GetPasswordHashInput(password), UserByEmail(email).password_hash)

\* login: `user`, and `tenant = _row_to_tenant(t_row) if t_row else {}`.
LoginBody(row) ==
    [user |-> RowToUser(row),
     tenant |-> IF TenantExists(row.tenant_id)
                THEN RowToTenant(CHOOSE t \in tenants : t.id = row.tenant_id)
                ELSE Null]

Login(email, password) ==
    LET found == IF EmailRegistered(email) THEN UserByEmail(email).id ELSE 0 IN
    IF LoginRejects(email, password)
    THEN /\ resp' = LoginError(found)
         /\ last' = [op |-> "login", target |-> found, body |-> NoBody]
         /\ UNCHANGED <<db, tokens, conns>>
    ELSE /\ Issue(UserByEmail(email))
         /\ RespondBody("login", 200, found, LoginBody(UserByEmail(email)))
         /\ UNCHANGED <<db, conns>>

\* ------------------------------------------------------------ the users table
\* The store's unique index on users.email (the schema is not among the sources;
\* the specification states that the store enforces email uniqueness): an
\* INSERT of an email that a committed row holds is refused.
UniqueEmailViolation(email) == EmailRegistered(email)

\* ----------------------------------------------------------- POST /auth/signup
PlanLimit(plan) ==
    CASE plan = "basic" -> 5
      [] plan = "pro" -> 25
      [] plan = "enterprise" -> 999
      [] OTHER -> 5

\* A transaction on one pooled connection: the rows it has written and not yet
\* committed, and the ids its INSERT ... RETURNING statements gave back.
TxBegin == [rows |-> EmptyRows, tenant_id |-> 0, user_id |-> 0]

\* A request in progress: its position, its inputs, its open transaction, the
\* user row it has read (reset_password), and its outcome.
NoRow == [password_hash |-> "", must_reset_password |-> FALSE]
IdleConn == [pc |-> "idle", email |-> "", password |-> "", plan |-> "", tenant |-> 0,
             user |-> 0, new |-> "", seen |-> NoRow,
             tx |-> TxBegin, status |-> 0, error |-> "none"]

\* Ids are generated by the store and never handed out twice: the next id of a
\* table is above every committed one and differs from the uncommitted ones.
PendingIds(table) ==
    UNION {{r.id : r \in conns[c].tx.rows[table]} : c \in DOMAIN conns}
FreshId(table) ==
    CHOOSE i \in (nextId[table] + 1)..(nextId[table] + 1 + Cardinality(PendingIds(table))) :
        /\ i \notin PendingIds(table)
        /\ \A j \in (nextId[table] + 1)..(i - 1) : j \in PendingIds(table)

InsertTenant(tx, plan) ==
    [tx EXCEPT !.rows.tenants = @ \cup {[id |-> FreshId("tenants"), plan |-> plan]},
               !.tenant_id = FreshId("tenants")]

\* Mutant of AdminRow: signup hashes the password as it came.
AdminRowRawPassword(id, tenant_id, email, password) ==
    [id |-> id, tenant_id |-> tenant_id, email |-> email,
     password_hash |-> BcryptHash(password),
     role |-> "ADMIN", must_reset_password |-> FALSE]

AdminRow(id, tenant_id, email, password) ==
    [id |-> id, tenant_id |-> tenant_id, email |-> email,
     password_hash |-> BcryptHash(GetPasswordHashInput(password)),
     role |-> "ADMIN", must_reset_password |-> FALSE]

InsertAdminUser(tx, email, password) ==
    [tx EXCEPT !.rows.users = @ \cup {AdminRow(FreshId("users"), tx.tenant_id, email, password)},
               !.user_id = FreshId("users")]

InsertSubscription(tx, plan) ==
    [tx EXCEPT !.rows.subscriptions = @ \cup
        {[id |-> FreshId("subscriptions"), tenant_id |-> tx.tenant_id, plan |-> plan,
          max_users |-> PlanLimit(plan)]}]

\* Mutant of Rollback: the except clause leaves the written rows in place.
RollbackKeepsRows(tx) == tx

\* conn.rollback(): the connection's uncommitted rows are gone.
Rollback(tx) == [tx EXCEPT !.rows = EmptyRows]

\* Where the datastore may fail a signup transaction.
SignupFaults == {"none", "tenant", "user", "subscription", "commit"}

\* The try block of signup run to its end: ok, and the transaction as it is when
\* the block is left (committed, or rolled back by the except clause).
SignupTransaction(email, password, plan, fault) ==
    LET t1 == InsertTenant(TxBegin, plan)
        t2 == InsertAdminUser(t1, email, password)
        t3 == InsertSubscription(t2, plan)
    IN  CASE fault = "tenant" -> [ok |-> FALSE, tx |-> Rollback(TxBegin)]
          [] fault = "user" -> [ok |-> FALSE, tx |-> Rollback(t1)]
          [] fault = "subscription" -> [ok |-> FALSE, tx |-> Rollback(t2)]
          [] fault = "commit" -> [ok |-> FALSE, tx |-> Rollback(t3)]
          [] OTHER -> [ok |-> TRUE, tx |-> t3]

MaxOf(S, floor) == IF S = {} THEN floor ELSE CHOOSE m \in S \cup {floor} :
                                              \A x \in S \cup {floor} : x <= m

\* The rows of a transaction become visible to every connection.
Persist(rows) ==
    /\ tenants' = tenants \cup rows.tenants
    /\ users' = users \cup rows.users
    /\ subscriptions' = subscriptions \cup rows.subscriptions
    /\ nextId' = [table \in DOMAIN nextId |->
                    MaxOf({r.id : r \in rows[table]}, nextId[table])]

IdsLeft ==
    /\ FreshId("tenants") <= MaxTenants
    /\ FreshId("users") <= MaxUsers
    /\ FreshId("subscriptions") <= MaxSubscriptions

\* signup: user = _row_to_user(u_row), tenant = _row_to_tenant(t_row)
SignupBody(tx) ==
    [user |-> RowToUser(CHOOSE u \in tx.rows.users : TRUE),
     tenant |-> RowToTenant(CHOOSE t \in tx.rows.tenants : TRUE)]

Signup(email, password, plan, fault) ==
    IF EmailRegistered(email)
    THEN /\ Respond("signup", 400, "User with this email already exists", 0)
         /\ UNCHANGED <<db, tokens, conns>>
    ELSE /\ IdsLeft
         /\ LET run == SignupTransaction(email, password, plan, fault) IN
              /\ Persist(run.tx.rows)
              /\ IF run.ok
                 THEN /\ Issue(CHOOSE u \in run.tx.rows.users : TRUE)
                      /\ RespondBody("signup", 201, run.tx.user_id, SignupBody(run.tx))
                 ELSE /\ tokens' = tokens
                      /\ Respond("signup", 500, "Failed to create account", 0)
         /\ UNCHANGED conns

\* ------------------------------------------------------- password handlers
\* Mutant of IsAdmin: the role check lets every principal through.
IsAdminAlways(principal) == TRUE

\* `current_user["role"] not in ("ADMIN",)`, negated.
IsAdmin(principal) == principal.role = "ADMIN"

\* Mutant of SetPassword: the UPDATE has no WHERE clause.
SetPasswordAllRows(rows, id, hash, must_reset) ==
    {[u EXCEPT !.password_hash = hash, !.must_reset_password = must_reset] : u \in rows}

\* UPDATE users SET password_hash = %s, must_reset_password = %s WHERE id = %s
SetPassword(rows, id, hash, must_reset) ==
    {IF u.id = id
     THEN [u EXCEPT !.password_hash = hash, !.must_reset_password = must_reset]
     ELSE u : u \in rows}

\* Mutant of ResetNeedsCurrent: the current password is never asked for.
ResetNeedsCurrentNever(row) == FALSE

\* reset_password: `if not must_reset:` guards the current-password check.
ResetNeedsCurrent(row) == ~row.must_reset_password

\* `not body.currentPassword or not pwd_ctx.verify(pw_input, pw_hash)`, negated.
ResetCurrentOk(row, current) ==
    /\ current # ""
    /\ BcryptVerify(GetPasswordHashInput(current), row.password_hash)

\* new_hash = pwd_ctx.hash(body.newPassword)
ResetNewHash(new) == BcryptHash(new)

\* POST /auth/reset-password
ResetPassword(t, userId, current, new) ==
    LET auth == GetCurrentUser(t) IN
    IF ~auth.ok THEN Unauthorized("reset_password", t)
    ELSE IF ~UserExists(userId)
    THEN /\ Respond("reset_password", 404, "User not found", userId)
         /\ UNCHANGED <<db, tokens, conns>>
    ELSE IF ResetNeedsCurrent(UserById(userId)) /\ ~ResetCurrentOk(UserById(userId), current)
    THEN /\ Respond("reset_password", 400, "Current password is incorrect",
                    userId)
         /\ UNCHANGED <<db, tokens, conns>>
    ELSE /\ users' = SetPassword(users, userId, ResetNewHash(new), FALSE)
         /\ Respond("reset_password", 200, "", userId)
         /\ UNCHANGED <<tenants, subscriptions, nextId, tokens, conns>>

\* The body both admin-reset endpoints share after their role check.
AdminResetUpdate(op, userId, new) ==
    IF ~UserExists(userId)
    THEN /\ Respond(op, 404, "User not found", userId)
         /\ UNCHANGED <<db, tokens, conns>>
    ELSE /\ users' = SetPassword(users, userId, BcryptHash(new), TRUE)
         /\ Respond(op, 200, "", userId)
         /\ UNCHANGED <<tenants, subscriptions, nextId, tokens, conns>>

Forbidden(op) ==
    /\ Respond(op, 403, "Admin role required", 0)
    /\ UNCHANGED <<db, tokens, conns>>

\* POST /auth/admin-reset-password
AdminResetPassword(t, userId, new) ==
    LET auth == GetCurrentUser(t) IN
    IF ~auth.ok THEN Unauthorized("admin_reset_password", t)
    ELSE IF ~IsAdmin(auth.principal)
    THEN Forbidden("admin_reset_password")
    ELSE AdminResetUpdate("admin_reset_password", userId, new)

\* POST /users/{user_id}/reset-password
UsersAdminResetPassword(t, userId, new) ==
    LET auth == GetCurrentUser(t) IN
    IF ~auth.ok THEN Unauthorized("users_reset_password", t)
    ELSE IF ~IsAdmin(auth.principal)
    THEN Forbidden("users_reset_password")
    ELSE AdminResetUpdate("users_reset_password", userId, new)

\* POST /users/{user_id}/change-password
\* Mutant of ChangeCurrentOk: a forced reset skips the current-password check.
ChangeCurrentOkUnlessForced(row, current) ==
    \/ row.must_reset_password
    \/ BcryptVerify(Truncate72(current), row.password_hash)

\* change_password: pwd_ctx.verify(safe_current, row[0])
ChangeCurrentOk(row, current) == BcryptVerify(Truncate72(current), row.password_hash)

ChangePassword(t, userId, current, new) ==
    LET auth == GetCurrentUser(t) IN
    IF ~auth.ok THEN Unauthorized("change_password", t)
    ELSE IF ~UserExists(userId)
    THEN /\ Respond("change_password", 404, "User not found", userId)
         /\ UNCHANGED <<db, tokens, conns>>
    ELSE IF ~ChangeCurrentOk(UserById(userId), current)
    THEN /\ Respond("change_password", 400, "Current password is incorrect",
                    userId)
         /\ UNCHANGED <<db, tokens, conns>>
    ELSE /\ users' = SetPassword(users, userId, BcryptHash(new), FALSE)
         /\ Respond("change_password", 200, "", userId)
         /\ UNCHANGED <<tenants, subscriptions, nextId, tokens, conns>>

\* ------------------------------------------------------------ routers/users.py
\* The users table's constraints: the foreign key users.tenant_id -> tenants.id
\* (check_db.py) and the unique email.
UserInsertViolates(tenantId, email) ==
    \/ ~TenantExists(tenantId)
    \/ UniqueEmailViolation(email)

\* POST /users: the role check, then one INSERT INTO users, committed.
CreateUserRequest(t, tenantId, email, role, password, mustReset) ==
    LET auth == GetCurrentUser(t) IN
    IF ~auth.ok THEN Unauthorized("create_user", t)
    ELSE IF ~IsAdmin(auth.principal) THEN Forbidden("create_user")
    ELSE IF UserInsertViolates(tenantId, email)
    THEN /\ Respond("create_user", 500, "Internal Server Error", 0)
         /\ UNCHANGED <<db, tokens, conns>>
    ELSE /\ users' = users \cup
                {[id |-> FreshId("users"), tenant_id |-> tenantId, email |-> email,
                  password_hash |-> BcryptHash(Truncate72(password)),
                  role |-> role, must_reset_password |-> mustReset]}
         /\ nextId' = [nextId EXCEPT !.users = FreshId("users")]
         /\ Respond("create_user", 201, "", FreshId("users"))
         /\ UNCHANGED <<tenants, subscriptions, tokens, conns>>

\* POST /users with at most MaxUsers user ids handed out.
CreateUser(t, tenantId, email, role, password, mustReset) ==
    /\ (GetCurrentUser(t).ok /\ IsAdmin(GetCurrentUser(t).principal)) =>
          FreshId("users") <= MaxUsers
    /\ CreateUserRequest(t, tenantId, email, role, password, mustReset)

\* body.role of PATCH /users/{user_id} when the field is absent.
Unset == "(unset)"

\* body of PATCH /users/{user_id} with no field at all.
Nothing == "(nothing)"

\* PATCH /users/{user_id}; role is body.role, Unset when only body.name or
\* body.status is given, Nothing when the body has no field.
UpdateUser(t, userId, role) ==
    LET auth == GetCurrentUser(t) IN
    IF ~auth.ok THEN Unauthorized("update_user", t)
    ELSE IF role = Nothing
    THEN /\ Respond("update_user", 400, "Nothing to update", userId)
         /\ UNCHANGED <<db, tokens, conns>>
    ELSE IF ~UserExists(userId)
    THEN /\ Respond("update_user", 404, "User not found", userId)
         /\ UNCHANGED <<db, tokens, conns>>
    ELSE /\ users' = {IF u.id = userId /\ role \in Roles THEN [u EXCEPT !.role = role] ELSE u
                      : u \in users}
         /\ Respond("update_user", 200, "", userId)
         /\ UNCHANGED <<tenants, subscriptions, nextId, tokens, conns>>

\* DELETE /users/{user_id}
DeleteUser(t, userId) ==
    LET auth == GetCurrentUser(t) IN
    IF ~auth.ok THEN Unauthorized("delete_user", t)
    ELSE IF ~IsAdmin(auth.principal) THEN Forbidden("delete_user")
    ELSE /\ users' = {u \in users : u.id # userId}
         /\ Respond("delete_user", 204, "", userId)
         /\ UNCHANGED <<tenants, subscriptions, nextId, tokens, conns>>

\* ------------------------------------------------------------- specification
Init ==
    /\ tenants = {}
    /\ users = {}
    /\ subscriptions = {}
    /\ nextId = [tenants |-> 0, users |-> 0, subscriptions |-> 0, accounts |-> 0]
    /\ tokens = {}
    /\ resp = [status |-> 0, detail |-> ""]
    /\ last = [op |-> "none", target |-> 0, body |-> NoBody]
    /\ conns = [c \in Clients |-> IdleConn]
    /\ now = 0
    /\ reset_tokens = {}
    /\ outbox = <<>>
    /\ accounts = {}
    /\ connection_pool = 0
    /\ used = <<>>
    /\ inflight = [q \in Positions |-> 0]

Next ==
    \/ \E e \in Emails, p \in Passwords : Login(e, p)
          /\ UNCHANGED mail
    \/ \E e \in Emails, p \in Passwords, pl \in Plans, f \in SignupFaults : Signup(e, p, pl, f)
          /\ UNCHANGED mail
    \/ \E t \in Bearers, u \in UserIds, c \in Passwords, n \in Passwords :
          ResetPassword(t, u, c, n)
          /\ UNCHANGED mail
    \/ \E t \in Bearers, u \in UserIds, n \in Passwords : AdminResetPassword(t, u, n)
          /\ UNCHANGED mail
    \/ \E t \in Bearers, u \in UserIds, n \in Passwords : UsersAdminResetPassword(t, u, n)
          /\ UNCHANGED mail
    \/ \E t \in Bearers, u \in UserIds, c \in Passwords, n \in Passwords :
          ChangePassword(t, u, c, n)
          /\ UNCHANGED mail
    \/ \E t \in Bearers, tid \in TenantIds, e \in Emails, r \in Roles, p \in Passwords,
          m \in BOOLEAN : CreateUser(t, tid, e, r, p, m)
          /\ UNCHANGED mail
    \/ \E t \in Bearers, u \in UserIds, r \in Roles \cup {Unset, Nothing} : UpdateUser(t, u, r)
          /\ UNCHANGED mail
    \/ \E t \in Bearers, u \in UserIds : DeleteUser(t, u)
          /\ UNCHANGED mail

Spec == Init /\ [][Next]_vars

\* -------------------------------------------- signup, statement by statement
\* Each client runs signup on its own connection; a statement is one step, and
\* uncommitted rows are seen by their own connection only (read committed).
InFlight == {c \in Clients : conns[c].pc \notin {"idle", "done"}}

ConnDone(c, status, error) ==
    conns' = [conns EXCEPT ![c].pc = "done", ![c].status = status, ![c].error = error,
                           ![c].tx = TxBegin]

ConcStart(c, email, password, plan) ==
    /\ conns[c].pc \in {"idle", "done"}
    /\ nextId.tenants + Cardinality(InFlight) < MaxTenants
    /\ nextId.users + Cardinality(InFlight) < MaxUsers
    /\ nextId.subscriptions + Cardinality(InFlight) < MaxSubscriptions
    /\ conns' = [conns EXCEPT ![c] = [IdleConn EXCEPT !.pc = "check", !.email = email,
                                                      !.password = password, !.plan = plan]]
    /\ UNCHANGED <<db, tokens, resp, last>>

\* 1. Email uniqueness check, on a connection of its own.
ConcCheck(c) ==
    /\ conns[c].pc = "check"
    /\ IF EmailRegistered(conns[c].email)
       THEN ConnDone(c, 400, "none")
       ELSE conns' = [conns EXCEPT ![c].pc = "tenant"]
    /\ UNCHANGED <<db, tokens, resp, last>>

\* except Exception: conn.rollback(); raise HTTPException(500).  What the
\* connection leaves behind is what its transaction still holds.
ConcExcept(c, error) ==
    /\ Persist(Rollback(conns[c].tx).rows)
    /\ ConnDone(c, 500, error)
    /\ UNCHANGED <<tokens, resp, last>>

ConcInsertTenant(c, fails) ==
    /\ conns[c].pc = "tenant"
    /\ IF fails THEN ConcExcept(c, "fault")
       ELSE /\ conns' = [conns EXCEPT ![c].pc = "user",
                                      ![c].tx = InsertTenant(@, conns[c].plan)]
            /\ UNCHANGED <<db, tokens, resp, last>>

\* The unique index on users.email under concurrency: an INSERT waits for the
\* uncommitted row of another transaction with the same email.
EmailLocked(c) ==
    \E d \in Clients \ {c} : \E u \in conns[d].tx.rows.users : u.email = conns[c].email

ConcInsertUser(c, fails) ==
    /\ conns[c].pc = "user"
    /\ ~EmailLocked(c)
    /\ IF fails THEN ConcExcept(c, "fault")
       ELSE IF UniqueEmailViolation(conns[c].email) THEN ConcExcept(c, "unique")
       ELSE /\ conns' = [conns EXCEPT ![c].pc = "subscription",
                             ![c].tx = InsertAdminUser(@, conns[c].email, conns[c].password)]
            /\ UNCHANGED <<db, tokens, resp, last>>

ConcInsertSubscription(c, fails) ==
    /\ conns[c].pc = "subscription"
    /\ IF fails THEN ConcExcept(c, "fault")
       ELSE /\ conns' = [conns EXCEPT ![c].pc = "commit",
                                      ![c].tx = InsertSubscription(@, conns[c].plan)]
            /\ UNCHANGED <<db, tokens, resp, last>>

ConcCommit(c, fails) ==
    /\ conns[c].pc = "commit"
    /\ IF fails THEN ConcExcept(c, "fault")
       ELSE /\ Persist(conns[c].tx.rows)
            /\ Issue(CHOOSE u \in conns[c].tx.rows.users : TRUE)
            /\ ConnDone(c, 201, "none")
            /\ UNCHANGED <<resp, last>>

NextConc ==
    \/ \E c \in Clients, e \in Emails, p \in Passwords, pl \in Plans : ConcStart(c, e, p, pl)
          /\ UNCHANGED mail
    \/ \E c \in Clients : ConcCheck(c)
          /\ UNCHANGED mail
    \/ \E c \in Clients, f \in BOOLEAN : ConcInsertTenant(c, f)
          /\ UNCHANGED mail
    \/ \E c \in Clients, f \in BOOLEAN : ConcInsertUser(c, f)
          /\ UNCHANGED mail
    \/ \E c \in Clients, f \in BOOLEAN : ConcInsertSubscription(c, f)
          /\ UNCHANGED mail
    \/ \E c \in Clients, f \in BOOLEAN : ConcCommit(c, f)
          /\ UNCHANGED mail

SpecConc == Init /\ [][NextConc]_vars

\* ------------------------------------------------------- tokens over time
\* The clock moves on between requests.
Tick ==
    /\ \E i \in Instants : i > now /\ now' = i
    /\ UNCHANGED <<db, tokens, resp, last, conns, reset_tokens, outbox, accounts, dbpool>>

\* Bearer strings nobody signed with the server's secret: a signed token with one
\* claim altered, and the claims of a signed token under another secret.
Altered(t) == [t EXCEPT !.role = IF @ = "ADMIN" THEN "SALES" ELSE "ADMIN"]
Resigned(t) == JwtEncode(Payload(t), "not the secret")
Forgeries == {Altered(t) : t \in tokens} \cup {Resigned(t) : t \in tokens}

\* Mutant of Logout: the tokens signed so far are revoked.
LogoutRevokes ==
    /\ Respond("logout", 204, "", 0)
    /\ tokens' = {}
    /\ UNCHANGED <<db, conns>>

\* POST /auth/logout: `return None` (204); the handler takes no argument and has
\* no dependency, so no bearer is read.
Logout ==
    /\ Respond("logout", 204, "", 0)
    /\ UNCHANGED <<db, tokens, conns>>

NextTime ==
    \/ \E e \in Emails, p \in Passwords, pl \in Plans : Signup(e, p, pl, "none")
          /\ UNCHANGED mail
    \/ \E e \in Emails, p \in Passwords : Login(e, p)
          /\ UNCHANGED mail
    \/ \E t \in tokens \cup Forgeries, u \in UserIds, n \in Passwords :
          AdminResetPassword(t, u, n)
          /\ UNCHANGED mail
    \/ \E t \in tokens \cup Forgeries, u \in UserIds : DeleteUser(t, u)
          /\ UNCHANGED mail
    \/ Logout
          /\ UNCHANGED mail
    \/ Tick

SpecTime == Init /\ [][NextTime]_vars

\* ------------------------------------------------- POST /auth/forgot-password

\* secrets.token_urlsafe(48): a value no earlier row holds.
FreshResetToken == Cardinality(reset_tokens) + 1

\* expires_at = datetime.utcnow() + timedelta(hours=1)
ResetTokenRow(user_id) ==
    [user_id |-> user_id, token |-> FreshResetToken,
     expires_at |-> now + RESET_TOKEN_MINUTES]

\* Mutant of InsertResetToken: the user's earlier tokens are replaced.
InsertResetTokenReplacing(rows, row) ==
    {r \in rows : r.user_id # row.user_id} \cup {row}

\* INSERT INTO password_reset_tokens (user_id, token, expires_at) VALUES (...)
InsertResetToken(rows, row) == rows \cup {row}

\* Mutant of ForgotUnknown: an unknown email is reported.
ForgotUnknownReported == [status |-> 404, detail |-> "User not found"]

\* `if not row: return None` (204; "Don't reveal whether email exists")
ForgotUnknown == [status |-> 204, detail |-> ""]

\* Mutant of ForgotSent: the SMTP error reaches the caller.
ForgotSentSurfaces(smtpFails) ==
    IF smtpFails THEN [status |-> 500, detail |-> "Internal Server Error"]
    ELSE [status |-> 204, detail |-> ""]

\* try: send_password_reset_email(...) except Exception: print(...); return None
ForgotSent(smtpFails) == [status |-> 204, detail |-> ""]

\* dbFails: the INSERT or its commit raises; smtpFails: the mailer raises.
ForgotPassword(email, dbFails, smtpFails) ==
    IF ~EmailRegistered(email)
    THEN /\ resp' = ForgotUnknown
         /\ last' = [op |-> "forgot_password", target |-> 0, body |-> NoBody]
         /\ UNCHANGED <<db, tokens, conns, mail>>
    ELSE LET row == ResetTokenRow(UserByEmail(email).id) IN
         /\ Cardinality(reset_tokens) < MaxResetTokens
         /\ IF dbFails
            THEN /\ Respond("forgot_password", 500, "Internal Server Error",
                            row.user_id)
                 /\ UNCHANGED <<reset_tokens, outbox>>
            ELSE /\ reset_tokens' = InsertResetToken(reset_tokens, row)
                 /\ outbox' = Append(outbox, [email |-> email, token |-> row.token,
                                              sent |-> ~smtpFails])
                 /\ resp' = ForgotSent(smtpFails)
                 /\ last' = [op |-> "forgot_password", target |-> row.user_id,
                             body |-> NoBody]
         /\ UNCHANGED <<db, tokens, conns, now, accounts, dbpool>>

NextForgot ==
    \/ \E e \in Emails, p \in Passwords, pl \in Plans : Signup(e, p, pl, "none")
          /\ UNCHANGED mail
    \/ \E e \in Emails, d \in BOOLEAN, m \in BOOLEAN : ForgotPassword(e, d, m)
    \/ Tick

SpecForgot == Init /\ [][NextForgot]_vars

\* ---------------------------------------------------------- routers/tenants.py
\* POST /tenants (no authentication): one INSERT INTO tenants, committed.
CreateTenant(plan) ==
    LET row == [id |-> FreshId("tenants"), plan |-> plan] IN
    /\ row.id <= MaxTenants
    /\ Persist([EmptyRows EXCEPT !.tenants = {row}])
    /\ RespondBody("create_tenant", 201, 0, [user |-> Null, tenant |-> RowToTenant(row)])
    /\ UNCHANGED <<tokens, conns>>

\* Mutant of SubscriptionPlanLimit: every plan gets the default limit.
SubscriptionPlanLimitDefault(plan) == 5

\* update_subscription: plan_limits.get(body.plan, 5)
SubscriptionPlanLimit(plan) ==
    CASE plan = "basic" -> 5
      [] plan = "pro" -> 25
      [] plan = "enterprise" -> 999
      [] OTHER -> 5

\* conn.commit() of a transaction that also rewrote rows: a written row replaces
\* the committed row with its id.
PersistVersions(rows) ==
    /\ tenants' = {t \in tenants : \A r \in rows.tenants : r.id # t.id} \cup rows.tenants
    /\ subscriptions' =
          {q \in subscriptions : \A r \in rows.subscriptions : r.id # q.id}
             \cup rows.subscriptions
    /\ users' = users
    /\ nextId' = [table \in DOMAIN nextId |->
                    MaxOf({r.id : r \in rows[table]}, nextId[table])]

\* A row that another open transaction has written is locked until that
\* transaction ends.
RowLocked(c, table, ids) ==
    \E d \in Clients \ {c} : \E r \in conns[d].tx.rows[table] : r.id \in ids

\* The tenant ids a caller can put in the path: ids the store has handed out,
\* and 0 for a value that is the id of no row.
KnownTenantIds == {t.id : t \in tenants} \cup {0}

\* The request arrives; get_current_user runs before the handler body.
UpsStart(c, t, tenantId, plan) ==
    /\ conns[c].pc \in {"idle", "done"}
    /\ IF ~GetCurrentUser(t).ok
       THEN conns' = [conns EXCEPT ![c] = [IdleConn EXCEPT !.pc = "done", !.status = 401]]
       ELSE conns' = [conns EXCEPT ![c] = [IdleConn EXCEPT !.pc = "update",
                                                          !.tenant = tenantId, !.plan = plan]]
    /\ UNCHANGED <<db, tokens, resp, last>>

\* UPDATE subscriptions SET plan, max_users WHERE tenant_id = ... RETURNING ...;
\* `if not row:` leads to the INSERT.
UpsUpdate(c) ==
    LET rows == {q \in subscriptions : q.tenant_id = conns[c].tenant} IN
    /\ conns[c].pc = "update"
    /\ ~RowLocked(c, "subscriptions", {q.id : q \in rows})
    /\ conns' = [conns EXCEPT
          ![c].pc = IF rows = {} THEN "insert" ELSE "tenant",
          ![c].tx.rows.subscriptions =
              {[q EXCEPT !.plan = conns[c].plan,
                         !.max_users = SubscriptionPlanLimit(conns[c].plan)] : q \in rows}]
    /\ UNCHANGED <<db, tokens, resp, last>>

\* An exception leaves the `with get_conn()` block: rollback, 500.
UpsRaise(c) ==
    /\ conns' = [conns EXCEPT ![c] = [IdleConn EXCEPT !.pc = "done", !.status = 500,
                                                      !.error = "fault"]]
    /\ UNCHANGED <<db, tokens, resp, last>>

\* INSERT INTO subscriptions (tenant_id, plan, max_users); the foreign key
\* subscriptions.tenant_id -> tenants.id refuses an unknown tenant.
UpsInsert(c) ==
    /\ conns[c].pc = "insert"
    /\ IF ~TenantExists(conns[c].tenant) THEN UpsRaise(c)
       ELSE /\ FreshId("subscriptions") <= MaxSubscriptions
            /\ conns' = [conns EXCEPT
                  ![c].pc = "tenant",
                  ![c].tx.rows.subscriptions =
                      {[id |-> FreshId("subscriptions"), tenant_id |-> conns[c].tenant,
                        plan |-> conns[c].plan,
                        max_users |-> SubscriptionPlanLimit(conns[c].plan)]}]
            /\ UNCHANGED <<db, tokens, resp, last>>

\* Mutant of UpsTenantPlan: the tenant row is not written.
UpsTenantPlanSkipped(c) ==
    /\ conns[c].pc = "tenant"
    /\ conns' = [conns EXCEPT ![c].pc = "commit"]
    /\ UNCHANGED <<db, tokens, resp, last>>

\* UPDATE tenants SET plan = ... WHERE id = ...
UpsTenantPlan(c) ==
    LET rows == {t \in tenants : t.id = conns[c].tenant} IN
    /\ conns[c].pc = "tenant"
    /\ ~RowLocked(c, "tenants", {t.id : t \in rows})
    /\ conns' = [conns EXCEPT
          ![c].pc = "commit",
          ![c].tx.rows.tenants = {[t EXCEPT !.plan = conns[c].plan] : t \in rows}]
    /\ UNCHANGED <<db, tokens, resp, last>>

\* conn.commit(); return _row_to_sub(row)
UpsCommit(c) ==
    /\ conns[c].pc = "commit"
    /\ PersistVersions(conns[c].tx.rows)
    /\ conns' = [conns EXCEPT ![c] = [IdleConn EXCEPT !.pc = "done", !.status = 200]]
    /\ UNCHANGED <<tokens, resp, last>>

NextSub ==
    \/ \E e \in Emails, pl \in Plans : Signup(e, "pw", pl, "none")
          /\ UNCHANGED mail
    \/ \E pl \in SubPlans : CreateTenant(pl)
          /\ UNCHANGED mail
    \/ \E c \in Clients, t \in Bearers, tid \in KnownTenantIds, pl \in SubPlans :
          UpsStart(c, t, tid, pl)
          /\ UNCHANGED mail
    \/ \E c \in Clients : UpsUpdate(c)
          /\ UNCHANGED mail
    \/ \E c \in Clients : UpsInsert(c)
          /\ UNCHANGED mail
    \/ \E c \in Clients : UpsTenantPlan(c)
          /\ UNCHANGED mail
    \/ \E c \in Clients : UpsCommit(c)
          /\ UNCHANGED mail

SpecSub == Init /\ [][NextSub]_vars

\* ------------------------------------------------ passwords and their digests
\* body.newPassword and body.currentPassword are free strings: among them the
\* string that is the SHA-256 hex digest of another password.
NewPasswords == Passwords \cup {Sha256Hex("pw")}

NextPw ==
    \/ \E e \in Emails, pl \in Plans : Signup(e, "pw", pl, "none")
          /\ UNCHANGED mail
    \/ \E e \in Emails, p \in NewPasswords : Login(e, p)
          /\ UNCHANGED mail
    \/ \E t \in Bearers, u \in UserIds, n \in NewPasswords : AdminResetPassword(t, u, n)
          /\ UNCHANGED mail
    \/ \E t \in Bearers, u \in UserIds, n \in NewPasswords : UsersAdminResetPassword(t, u, n)
          /\ UNCHANGED mail
    \/ \E t \in Bearers, u \in UserIds, c \in NewPasswords, n \in NewPasswords :
          ResetPassword(t, u, c, n)
          /\ UNCHANGED mail
    \/ \E t \in Bearers, u \in UserIds, c \in NewPasswords, n \in NewPasswords :
          ChangePassword(t, u, c, n)
          /\ UNCHANGED mail

SpecPw == Init /\ [][NextPw]_vars

\* --------------------------------------------------------- routers/accounts.py
\* Ids the accounts table hands out in one run; a deleted id is not handed out again.
MaxAccountIds == 3
AccountIds == 1..MaxAccountIds
\* body.name of POST (the first) and of PUT (both); body.status of POST, "" for
\* empty (PUT sends "won").
AccountNames == {"n1", "n2"}
AccountStatuses == {"", "won"}

\* _row_to_account: `row[9] or "active"`
RowToAccount(row) ==
    [id |-> row.id, tenantId |-> row.tenant_id, name |-> row.name,
     status |-> IF row.status = "" THEN "active" ELSE row.status]

AccountExists(id) == \E a \in accounts : a.id = id
AccountById(id) == CHOOSE a \in accounts : a.id = id

\* The JSON an accounts endpoint returns: one account, or a list of them.
AccountBody(account, list) == [account |-> account, list |-> list]

AccountUnauthorized(op, t) ==
    /\ Unauthorized(op, t)
    /\ UNCHANGED accounts

\* GET /accounts?tenantId=
GetAccounts(t, tenantId) ==
    IF ~GetCurrentUser(t).ok THEN AccountUnauthorized("get_accounts", t)
    ELSE /\ RespondBody("get_accounts", 200, 0,
               AccountBody(Null, {RowToAccount(a) : a \in {r \in accounts : r.tenant_id = tenantId}}))
         /\ UNCHANGED <<db, tokens, conns, accounts>>

\* GET /accounts/{account_id}
GetAccount(t, id) ==
    IF ~GetCurrentUser(t).ok THEN AccountUnauthorized("get_account", t)
    ELSE /\ IF ~AccountExists(id)
            THEN Respond("get_account", 404, "Account not found", id)
            ELSE RespondBody("get_account", 200, id, AccountBody(RowToAccount(AccountById(id)), {}))
         /\ UNCHANGED <<db, tokens, conns, accounts>>

\* POST /accounts: INSERT ... RETURNING; the foreign key accounts.tenant_id ->
\* tenants.id refuses an unknown tenant.
CreateAccount(t, tenantId, name, st) ==
    LET row == [id |-> nextId.accounts + 1, tenant_id |-> tenantId, name |-> name,
                status |-> st] IN
    IF ~GetCurrentUser(t).ok THEN AccountUnauthorized("create_account", t)
    ELSE /\ row.id <= MaxAccountIds
         /\ IF ~TenantExists(tenantId)
            THEN /\ Respond("create_account", 500, "Internal Server Error", 0)
                 /\ UNCHANGED <<db, tokens, conns, accounts>>
            ELSE /\ accounts' = accounts \cup {row}
                 /\ nextId' = [nextId EXCEPT !.accounts = row.id]
                 /\ RespondBody("create_account", 201, row.id,
                                AccountBody(RowToAccount(row), {}))
                 /\ UNCHANGED <<tenants, users, subscriptions, tokens, conns>>

\* Mutant of UpdateAccountRows: the UPDATE also sets tenant_id from the body.
UpdateAccountRowsMovesTenant(rows, id, tenantId, name, st) ==
    {IF a.id = id THEN [a EXCEPT !.tenant_id = tenantId, !.name = name, !.status = st]
     ELSE a : a \in rows}

\* UPDATE accounts SET name=, ..., status= WHERE id=  (body.tenantId is not written)
UpdateAccountRows(rows, id, tenantId, name, st) ==
    {IF a.id = id THEN [a EXCEPT !.name = name, !.status = st] ELSE a : a \in rows}

\* PUT /accounts/{account_id}
UpdateAccount(t, id, tenantId, name, st) ==
    IF ~GetCurrentUser(t).ok THEN AccountUnauthorized("update_account", t)
    ELSE /\ accounts' = UpdateAccountRows(accounts, id, tenantId, name, st)
         /\ IF ~AccountExists(id)
            THEN Respond("update_account", 404, "Account not found", id)
            ELSE RespondBody("update_account", 200, id,
                    AccountBody(RowToAccount(CHOOSE a \in accounts' : a.id = id), {}))
         /\ UNCHANGED <<db, tokens, conns>>

\* DELETE /accounts/{account_id}: 204 whether or not a row was deleted; fails: the
\* DELETE or its commit raises (rows of contacts or deals reference the account).
DeleteAccount(t, id, fails) ==
    IF ~GetCurrentUser(t).ok THEN AccountUnauthorized("delete_account", t)
    ELSE /\ IF fails
            THEN /\ Respond("delete_account", 500, "Internal Server Error", id)
                 /\ UNCHANGED accounts
            ELSE /\ accounts' = {a \in accounts : a.id # id}
                 /\ Respond("delete_account", 204, "", id)
         /\ UNCHANGED <<db, tokens, conns>>

clock == <<now, reset_tokens, outbox, connection_pool, used, inflight>>

NextAcc ==
    \/ \E e \in Emails, pl \in Plans : Signup(e, "pw", pl, "none")
          /\ UNCHANGED mail
    \/ \E t \in Bearers, tid \in TenantIds, st \in AccountStatuses :
          CreateAccount(t, tid, "n1", st)
          /\ UNCHANGED clock
    \/ \E t \in Bearers, id \in AccountIds, tid \in TenantIds, n \in AccountNames :
          UpdateAccount(t, id, tid, n, "won")
          /\ UNCHANGED clock
    \/ \E t \in Bearers, id \in AccountIds, f \in BOOLEAN : DeleteAccount(t, id, f)
          /\ UNCHANGED clock
    \/ \E t \in Bearers, id \in AccountIds : GetAccount(t, id)
          /\ UNCHANGED clock
    \/ \E t \in Bearers, tid \in TenantIds : GetAccounts(t, tid)
          /\ UNCHANGED clock

SpecAcc == Init /\ [][NextAcc]_vars

\* ----------------------------------- reset_password, statement by statement
\* The request arrives; get_current_user runs before the handler body.
RpStart(c, t, userId, current, new) ==
    /\ conns[c].pc \in {"idle", "done"}
    /\ IF ~GetCurrentUser(t).ok
       THEN conns' = [conns EXCEPT ![c] = [IdleConn EXCEPT !.pc = "done", !.status = 401]]
       ELSE conns' = [conns EXCEPT ![c] = [IdleConn EXCEPT !.pc = "select", !.user = userId,
                                                          !.password = current, !.new = new]]
    /\ UNCHANGED <<db, tokens, resp, last>>

\* SELECT password_hash, must_reset_password FROM users WHERE id = %s, on a
\* connection that is returned at once; then the checks on the row as read.
RpSelect(c) ==
    LET r == conns[c] IN
    /\ r.pc = "select"
    /\ IF ~UserExists(r.user)
       THEN conns' = [conns EXCEPT ![c] = [IdleConn EXCEPT !.pc = "done", !.status = 404]]
       ELSE IF /\ ResetNeedsCurrent(UserById(r.user))
               /\ ~ResetCurrentOk(UserById(r.user), r.password)
       THEN conns' = [conns EXCEPT ![c] = [IdleConn EXCEPT !.pc = "done", !.status = 400]]
       ELSE conns' = [conns EXCEPT
               ![c].pc = "update",
               ![c].seen = [password_hash |-> UserById(r.user).password_hash,
                            must_reset_password |-> UserById(r.user).must_reset_password]]
    /\ UNCHANGED <<db, tokens, resp, last>>

\* UPDATE users SET password_hash = %s, must_reset_password = false WHERE id = %s
\* on a second connection, committed; _row_to_user(None) raises when no row
\* matched.
RpUpdate(c) ==
    LET r == conns[c] IN
    /\ r.pc = "update"
    /\ users' = SetPassword(users, r.user, ResetNewHash(r.new), FALSE)
    /\ conns' = [conns EXCEPT ![c].pc = "done",
                              ![c].status = IF UserExists(r.user) THEN 200 ELSE 500]
    /\ UNCHANGED <<tenants, subscriptions, nextId, tokens, resp, last>>

NextRp ==
    \/ \E pl \in Plans : Signup("a@x", "pw", pl, "none")
          /\ UNCHANGED mail
    \/ \E c \in Clients, t \in Bearers, u \in UserIds, p \in Passwords, n \in Passwords :
          RpStart(c, t, u, p, n)
          /\ UNCHANGED mail
    \/ \E c \in Clients : RpSelect(c)
          /\ UNCHANGED mail
    \/ \E c \in Clients : RpUpdate(c)
          /\ UNCHANGED mail
    \/ \E t \in Bearers, u \in UserIds, n \in Passwords : AdminResetPassword(t, u, n)
          /\ UNCHANGED mail
    \/ \E t \in Bearers, u \in UserIds, p \in Passwords, n \in Passwords :
          ChangePassword(t, u, p, n)
          /\ UNCHANGED mail

SpecRp == Init /\ [][NextRp]_vars

\* ------------------------------------------------- the password lifecycle
\* Every handler that reads or writes a user row, forgot-password and logout
\* included, served one after the other.
NextLife ==
    \/ \E e \in Emails, pl \in Plans, f \in {"none", "commit"} : Signup(e, "pw", pl, f)
          /\ UNCHANGED mail
    \/ \E e \in Emails, p \in Passwords : Login(e, p)
          /\ UNCHANGED mail
    \/ Logout
          /\ UNCHANGED mail
    \/ \E e \in Emails, d \in BOOLEAN : ForgotPassword(e, d, FALSE)
    \/ \E t \in Bearers, u \in UserIds, c \in Passwords, n \in Passwords :
          ResetPassword(t, u, c, n)
          /\ UNCHANGED mail
    \/ \E t \in Bearers, u \in UserIds : AdminResetPassword(t, u, "pw")
          /\ UNCHANGED mail
    \/ \E t \in Bearers, u \in UserIds : UsersAdminResetPassword(t, u, "pw")
          /\ UNCHANGED mail
    \/ \E t \in Bearers, u \in UserIds, c \in Passwords : ChangePassword(t, u, c, "pw")
          /\ UNCHANGED mail
    \/ \E t \in Bearers, tid \in TenantIds, e \in Emails :
          CreateUser(t, tid, e, "SALES", "pw", TRUE)
          /\ UNCHANGED mail
    \/ \E t \in Bearers, u \in UserIds, r \in {"SALES", Unset, Nothing} : UpdateUser(t, u, r)
          /\ UNCHANGED mail

SpecLife == Init /\ [][NextLife]_vars

\* ------------------------------------------------------------ the seat limit
\* One more user than the smallest max_users a subscription row can carry (5).
MaxSeatUsers == 6
SeatEmails == {"a@x", "b@x", "c@x", "d@x", "e@x", "f@x"}

\* One signup, then its ADMIN adds users to its tenant.
NextSeats ==
    \/ \E pl \in Plans : Signup("a@x", "pw", pl, "none")
          /\ UNCHANGED mail
    \/ \E t \in Bearers, tid \in TenantIds, e \in SeatEmails :
          /\ FreshId("users") <= MaxSeatUsers
          /\ CreateUserRequest(t, tid, e, "SALES", "pw", TRUE)
          /\ UNCHANGED mail

SpecSeats == Init /\ [][NextSeats]_vars

\* ------------------------------------------------------------ db.py: the pool
\* Handlers and get_current_user are plain functions, so the server runs each
\* request on a worker thread; get_pool and get_conn run on that thread.
RECURSIVE SumOver(_, _)
SumOver(f, S) ==
    IF S = {} THEN 0
    ELSE LET x == CHOOSE y \in S : TRUE IN f[x] + SumOver(f, S \ {x})

\* Requests in flight, connections they hold, and connections checked out of
\* all pool objects.
RequestsInFlight == SumOver(inflight, Positions)
Held == SumOver(inflight, {q \in Positions : q.pc = "yield"})
CheckedOut == SumOver(used, DOMAIN used)

At(q, p) == [pc |-> q, pool_obj |-> p]
\* One request moves from position a to position b.
Move(a, b) ==
    /\ inflight[a] > 0
    /\ inflight' = [inflight EXCEPT ![a] = @ - 1, ![b] = @ + 1]
\* One request at position a ends (its response is sent).
Leave(a) ==
    /\ inflight[a] > 0
    /\ inflight' = [inflight EXCEPT ![a] = @ - 1]

\* lifespan: run_schema() before the first request; a failure is printed and the
\* application starts all the same. fails: the pool could not connect, which
\* leaves _connection_pool None. run_schema returns its connection either way.
Lifespan(fails) ==
    /\ last.op = "none"
    /\ last' = [op |-> "lifespan", target |-> 0, body |-> NoBody]
    /\ IF fails THEN UNCHANGED <<connection_pool, used>>
       ELSE /\ used' = Append(used, 0)
            /\ connection_pool' = Len(used) + 1
    /\ UNCHANGED <<db, tokens, resp, conns, inflight>>

Started == last.op # "none"

\* A request arrives.
Arrive ==
    /\ Started
    /\ RequestsInFlight < MaxInFlight
    /\ inflight' = [inflight EXCEPT ![At("ready", 0)] = @ + 1]
    /\ UNCHANGED <<db, tokens, resp, last, conns, connection_pool, used>>

\* get_pool(), first half: read the global; a pool that exists is returned, None
\* sends the thread on to construct one.
GetPool ==
    /\ Started
    /\ IF connection_pool = 0
       THEN Move(At("ready", 0), At("get_pool", 0))
       ELSE Move(At("ready", 0), At("getconn", connection_pool))
    /\ UNCHANGED <<db, tokens, resp, last, conns, connection_pool, used>>

\* get_pool(), second half: SimpleConnectionPool(1, 10, dsn) connects, then the
\* global is assigned and returned; fails: the connect raises and the request
\* ends with the error.
GetPoolCreate(fails) ==
    /\ Started
    /\ IF fails
       THEN /\ Leave(At("get_pool", 0))
            /\ UNCHANGED <<connection_pool, used>>
       ELSE /\ Len(used) < MaxPools
            /\ used' = Append(used, 0)
            /\ connection_pool' = Len(used) + 1
            /\ Move(At("get_pool", 0), At("getconn", Len(used) + 1))
    /\ UNCHANGED <<db, tokens, resp, last, conns>>

\* conn = pool_obj.getconn(): a connection of this pool, or PoolError when
\* maxconn are out (raised before the try, so nothing is held or returned).
Getconn(p) ==
    /\ Started
    /\ IF used[p] < PoolMax
       THEN /\ Move(At("getconn", p), At("yield", p))
            /\ used' = [used EXCEPT ![p] = @ + 1]
       ELSE /\ Leave(At("getconn", p))
            /\ UNCHANGED used
    /\ UNCHANGED <<db, tokens, resp, last, conns, connection_pool>>

\* pool_obj.putconn(conn)
Putconn(p) == used' = [used EXCEPT ![p] = @ - 1]

\* The with block ends. path "ok": it ran to its end; "http": it raised an
\* HTTPException; "db": a statement raised. On "http" and "db" get_conn rolls
\* back and re-raises, and the request ends; the finally returns the connection
\* every time. again: after "ok" the request goes on to another block
\* (get_current_user before the handler, signup's second block).
GetConnExit(p, path, again) ==
    /\ Started
    /\ Putconn(p)
    /\ IF path = "ok" /\ again
       THEN Move(At("yield", p), At("ready", 0))
       ELSE Leave(At("yield", p))
    /\ UNCHANGED <<db, tokens, resp, last, conns, connection_pool>>

\* A request between blocks that needs no further connection ends.
Finish ==
    /\ Started
    /\ Leave(At("ready", 0))
    /\ UNCHANGED <<db, tokens, resp, last, conns, connection_pool, used>>

NextPool ==
    \/ \E fails \in BOOLEAN : Lifespan(fails) /\ UNCHANGED <<now, reset_tokens, outbox, accounts>>
    \/ Arrive /\ UNCHANGED <<now, reset_tokens, outbox, accounts>>
    \/ GetPool /\ UNCHANGED <<now, reset_tokens, outbox, accounts>>
    \/ \E fails \in BOOLEAN : GetPoolCreate(fails) /\ UNCHANGED <<now, reset_tokens, outbox, accounts>>
    \/ \E p \in DOMAIN used : Getconn(p) /\ UNCHANGED <<now, reset_tokens, outbox, accounts>>
    \/ \E p \in DOMAIN used, path \in {"ok", "http", "db"}, again \in BOOLEAN :
          GetConnExit(p, path, again) /\ UNCHANGED <<now, reset_tokens, outbox, accounts>>
    \/ Finish /\ UNCHANGED <<now, reset_tokens, outbox, accounts>>

SpecPool == Init /\ [][NextPool]_vars

\* ===================================================================== claims
TablesUnchanged == UNCHANGED <<tenants, users, subscriptions>>

\* A signup step that committed: exactly one new tenant, its ADMIN user and its
\* subscription appear together, and nothing else changes.
SignupCommitted(email, plan) ==
    \E t \in tenants' \ tenants, u \in users' \ users, s \in subscriptions' \ subscriptions :
        /\ tenants' = tenants \cup {t}
        /\ users' = users \cup {u}
        /\ subscriptions' = subscriptions \cup {s}
        /\ u.tenant_id = t.id /\ u.role = "ADMIN" /\ u.email = email
        /\ s.tenant_id = t.id /\ t.plan = plan

\* C1 as stated: in every reachable state each tenant has a user of its own and
\* a subscription (no tenant stands alone).
C1_TenantNeverAlone ==
    \A t \in tenants :
        /\ \E u \in users : u.tenant_id = t.id
        /\ \E s \in subscriptions : s.tenant_id = t.id

\* C1 (amended): every signup request is all or nothing.  When the tenant insert,
\* the user insert, the subscription insert or the commit fails the caller gets
\* 500 and no row of the request persists; a conflict (400) writes nothing; a
\* success (201) adds the tenant, its ADMIN user and its subscription together.
C1_SignupAtomic ==
    [][last'.op = "signup" => \A e \in Emails, p \in Passwords, pl \in Plans, f \in SignupFaults :
          Signup(e, p, pl, f) =>
             IF EmailRegistered(e) THEN resp'.status = 400 /\ TablesUnchanged
             ELSE IF f # "none" THEN resp'.status = 500 /\ TablesUnchanged
             ELSE resp'.status = 201 /\ SignupCommitted(e, pl)]_vars

\* C1 witness: a signup failed with 500 and left nothing beside the rows of the
\* one signup that had succeeded before.
C1_Witness ==
    /\ last.op = "signup" /\ resp.status = 500
    /\ Cardinality(tenants) = 1 /\ Cardinality(users) = 1 /\ Cardinality(subscriptions) = 1

\* A step that stored password p for user u and reported success.
StoredPassword(u, p) ==
    \/ /\ last'.op = "signup" /\ resp'.status = 201 /\ last'.target = u
       /\ \E e \in Emails, pl \in Plans : Signup(e, p, pl, "none")
    \/ /\ last'.op = "reset_password" /\ resp'.status = 200
       /\ \E t \in Bearers, c \in Passwords : ResetPassword(t, u, c, p)
    \/ /\ last'.op = "admin_reset_password" /\ resp'.status = 200
       /\ \E t \in Bearers : AdminResetPassword(t, u, p)
    \/ /\ last'.op = "users_reset_password" /\ resp'.status = 200
       /\ \E t \in Bearers : UsersAdminResetPassword(t, u, p)
    \/ /\ last'.op = "change_password" /\ resp'.status = 200
       /\ \E t \in Bearers, c \in Passwords : ChangePassword(t, u, c, p)
    \/ /\ last'.op = "create_user" /\ resp'.status = 201 /\ last'.target = u
       /\ \E t \in Bearers, tid \in TenantIds, e \in Emails, r \in Roles, m \in BOOLEAN :
             CreateUser(t, tid, e, r, p, m)

\* Password p opens user u's account: login accepts it, and so do the
\* current-password checks of reset_password and change_password.
PasswordAccepted(u, p) ==
    /\ UserExists(u)
    /\ ~LoginRejects(UserById(u).email, p)
    /\ ResetCurrentOk(UserById(u), p)
    /\ BcryptVerify(Truncate72(p), UserById(u).password_hash)

\* C2 as stated: after any operation stored password p for user u, login with
\* (u.email, p) succeeds and p is accepted as u's current password.
C2_SameNormalization ==
    [][\A u \in UserIds, p \in Passwords :
          StoredPassword(u, p) => (UserExists(u) => PasswordAccepted(u, p))']_vars

\* C2, login alone: after any operation stored password p, login accepts it.
C2_LoginAfterStore ==
    [][\A u \in UserIds, p \in Passwords :
          StoredPassword(u, p) =>
             (UserExists(u) => ~LoginRejects(UserById(u).email, p))']_vars

\* The users table with row `row` given a new password hash and flag.
WithPassword(row, hash, must_reset) ==
    (users \ {row}) \cup
        {[row EXCEPT !.password_hash = hash, !.must_reset_password = must_reset]}

\* C3: reset_password on an absent user answers 404 and changes nothing; on a
\* user whose must_reset_password is false it changes the password only when the
\* current password is non-empty and verifies, and otherwise answers 400 and
\* leaves the row as it is; when must_reset_password is true the check is
\* skipped; every success stores the hash of the new password and clears the flag.
C3_ResetPassword ==
    [][last'.op = "reset_password" =>
        \A t \in tokens, u \in UserIds, c \in Passwords, n \in Passwords :
          (ResetPassword(t, u, c, n) /\ UserExists(t.sub)) =>
             IF ~UserExists(u) THEN resp'.status = 404 /\ UNCHANGED <<db, tokens>>
             ELSE IF \/ UserById(u).must_reset_password
                     \/ /\ c # ""
                        /\ BcryptVerify(GetPasswordHashInput(c), UserById(u).password_hash)
             THEN /\ resp'.status = 200
                  /\ users' = WithPassword(UserById(u), BcryptHash(n), FALSE)
             ELSE /\ resp' = [status |-> 400, detail |-> "Current password is incorrect"]
                  /\ UNCHANGED <<db, tokens>>]_vars

\* C3 witness: a reset was refused with 400 for a user whose flag is false, and
\* the row still carries the hash signup stored.
C3_Witness ==
    /\ last.op = "reset_password" /\ resp.status = 400
    /\ UserExists(last.target)
    /\ ~UserById(last.target).must_reset_password
    /\ UserById(last.target).password_hash = BcryptHash(GetPasswordHashInput("pw"))

\* C4: on both admin-reset endpoints a caller whose role is not ADMIN gets 403
\* and no row changes; an ADMIN gets 404 for an absent target, with no change,
\* and for an existing target the hash is replaced and must_reset_password set.
C4_AdminResetPassword ==
    [][last'.op \in {"admin_reset_password", "users_reset_password"} =>
        \A t \in tokens, u \in UserIds, n \in Passwords :
          ((AdminResetPassword(t, u, n) \/ UsersAdminResetPassword(t, u, n))
             /\ UserExists(t.sub)) =>
             IF UserById(t.sub).role # "ADMIN"
             THEN resp'.status = 403 /\ UNCHANGED <<db, tokens>>
             ELSE IF ~UserExists(u)
             THEN resp'.status = 404 /\ UNCHANGED <<db, tokens>>
             ELSE /\ resp'.status = 200
                  /\ users' = WithPassword(UserById(u), BcryptHash(n), TRUE)]_vars

\* C4 witness: POST /users/{id}/reset-password succeeded on another user, who now
\* must reset.
C4_Witness ==
    /\ last.op = "users_reset_password" /\ resp.status = 200
    /\ UserExists(last.target) /\ UserById(last.target).must_reset_password
    /\ UserById(last.target).role # "ADMIN"

\* C5: a login whose password does not verify gets the same 401 response whether
\* or not the email is registered, issues no token and changes no table.
C5_LoginUniform ==
    [][last'.op = "login" =>
        \A e \in Emails, p \in Passwords :
          (/\ Login(e, p)
           /\ \/ ~EmailRegistered(e)
              \/ ~BcryptVerify(GetPasswordHashInput(p), UserByEmail(e).password_hash)) =>
             /\ resp' = [status |-> 401, detail |-> "Invalid email or password"]
             /\ UNCHANGED <<db, tokens>>]_vars

\* C5 witness: a login with a registered email and a wrong password was refused.
C5_Witness ==
    /\ last.op = "login" /\ resp.status = 401
    /\ UserExists(last.target)

\* Every request that carries the bearer token t; each handler records its own
\* name in last.op.
Authenticated(t) ==
    \/ /\ last'.op = "reset_password"
       /\ \E u \in UserIds, c \in Passwords, n \in Passwords : ResetPassword(t, u, c, n)
    \/ /\ last'.op = "admin_reset_password"
       /\ \E u \in UserIds, n \in Passwords : AdminResetPassword(t, u, n)
    \/ /\ last'.op = "users_reset_password"
       /\ \E u \in UserIds, n \in Passwords : UsersAdminResetPassword(t, u, n)
    \/ /\ last'.op = "change_password"
       /\ \E u \in UserIds, c \in Passwords, n \in Passwords : ChangePassword(t, u, c, n)
    \/ /\ last'.op = "create_user"
       /\ \E tid \in TenantIds, e \in Emails, r \in Roles, p \in Passwords, m \in BOOLEAN :
             CreateUser(t, tid, e, r, p, m)
    \/ /\ last'.op = "update_user"
       /\ \E u \in UserIds, r \in Roles \cup {Unset, Nothing} : UpdateUser(t, u, r)
    \/ /\ last'.op = "delete_user"
       /\ \E u \in UserIds : DeleteUser(t, u)

\* C6: a signed token whose user row is gone is refused with 401 by every
\* protected endpoint, which then changes nothing; and whenever the resolver
\* returns a principal, its id is the id of an existing user.
C6_DeletedUserRejected ==
    /\ [](\A t \in Bearers : GetCurrentUser(t).ok => UserExists(GetCurrentUser(t).principal.id))
    /\ [][\A t \in tokens : (~UserExists(t.sub) /\ Authenticated(t)) =>
             /\ resp' = [status |-> 401, detail |-> "User not found"]
             /\ UNCHANGED <<db, tokens>>]_vars

\* C6 witness: a request was refused with 401 "User not found" although its token
\* is one of the signed ones.
C6_Witness ==
    /\ resp = [status |-> 401, detail |-> "User not found"]
    /\ \E t \in tokens : ~UserExists(t.sub)

C7_WitnessPromoted ==
    /\ last.op = "admin_reset_password" /\ resp.status = 200
    /\ \A t \in tokens : UserExists(t.sub) => t.role # "ADMIN"

\* C8 as stated: a signup whose email belongs to an existing user, and which no
\* datastore fault interrupted, fails with the conflict error 400, in concurrent
\* executions too.
C8_DuplicateIsConflict ==
    \A c \in Clients :
        (/\ conns[c].pc = "done" /\ conns[c].status # 201
         /\ conns[c].error # "fault"
         /\ EmailRegistered(conns[c].email)) => conns[c].status = 400

\* C9: with the store enforcing the unique email, concurrent signups never leave
\* two users with one email; of the requests for one email at most one is
\* answered 201; and a request that lost leaves no tenant and no subscription
\* behind: every tenant and every subscription belongs to a committed user.
C9_EmailsUnique ==
    /\ \A u \in users, v \in users : u.email = v.email => u = v
    /\ \A t \in tenants : \E u \in users : u.tenant_id = t.id
    /\ \A s \in subscriptions : \E u \in users : u.tenant_id = s.tenant_id
    /\ Cardinality(tenants) = Cardinality(users)
    /\ Cardinality(subscriptions) = Cardinality(users)
    /\ \A c \in Clients, d \in Clients :
          (/\ c # d /\ conns[c].pc = "done" /\ conns[d].pc = "done"
           /\ conns[c].email = conns[d].email) =>
              /\ ~(conns[c].status = 201 /\ conns[d].status = 201)
              /\ (conns[c].error # "fault" \/ conns[d].error # "fault") =>
                    Cardinality({u \in users : u.email = conns[c].email}) = 1

\* C9 witness: two signups ran with the same email; one was answered 201, the
\* other lost at the unique index, and one user, one tenant and one subscription
\* exist.
C9_Witness ==
    /\ conns[1].pc = "done" /\ conns[2].pc = "done"
    /\ conns[1].email = conns[2].email
    /\ conns[1].status = 201 /\ conns[2].error = "unique"
    /\ Cardinality(users) = 1 /\ Cardinality(tenants) = 1
    /\ Cardinality(subscriptions) = 1

\* C10 as stated: every request that succeeds on a user row is made by a
\* principal of that row's tenant (an ADMIN of one tenant never resets, creates,
\* updates or deletes a user of another tenant).
C10_TenantScoped ==
    [][\A t \in tokens :
         (/\ Authenticated(t) /\ UserExists(t.sub)
          /\ resp'.status \in {200, 201, 204} /\ last'.target # 0) =>
            \A u \in users \cup users' :
                u.id = last'.target => u.tenant_id = UserById(t.sub).tenant_id]_vars

\* C11: a successful signup creates a user with role ADMIN in the tenant the same
\* request created, issues a token whose sub, tenant_id, email and role are that
\* user's, and leaves a state in which login with the same email and password
\* is accepted and returns that user and that tenant; and every accepted login
\* answers 200 with the user of the email and the tenant of that user.
C11_SignupThenLogin ==
    [][/\ last'.op = "signup" /\ resp'.status = 201 =>
            \A e \in Emails, p \in Passwords, pl \in Plans :
               Signup(e, p, pl, "none") =>
                  \E u \in users' \ users, t \in tenants' \ tenants, k \in tokens' \ tokens :
                     /\ u.role = "ADMIN" /\ u.tenant_id = t.id /\ u.email = e
                     /\ k.sub = u.id /\ k.tenant_id = t.id
                     /\ k.email = e /\ k.role = "ADMIN"
                     /\ last'.body.user.id = u.id /\ last'.body.user.role = "ADMIN"
                     /\ last'.body.tenant.id = t.id
                     /\ (~LoginRejects(e, p))'
                     /\ (LoginBody(UserByEmail(e)).user.id)' = u.id
                     /\ (LoginBody(UserByEmail(e)).tenant.id)' = t.id
       /\ last'.op = "login" =>
            \A e \in Emails, p \in Passwords :
               (/\ Login(e, p) /\ EmailRegistered(e)
                /\ BcryptVerify(GetPasswordHashInput(p), UserByEmail(e).password_hash)) =>
                  /\ resp'.status = 200
                  /\ last'.body.user.id = UserByEmail(e).id
                  /\ last'.body.user.email = e
                  /\ last'.body.tenant.id = UserByEmail(e).tenant_id]_vars

\* C11 witness: a login was accepted for an ADMIN whose password is still the one
\* signup stored.
C11_Witness ==
    /\ last.op = "login" /\ resp.status = 200
    /\ last.body.user.role = "ADMIN"
    /\ UserExists(last.target)
    /\ UserById(last.target).password_hash = BcryptHash(GetPasswordHashInput("pw"))
    /\ last.body.tenant.id = UserById(last.target).tenant_id

\* C12 as stated: the tenant in the response of a successful signup reports the
\* plan given as input and stored on the tenant row.
C12_TenantPlanReturned ==
    [][last'.op = "signup" /\ resp'.status = 201 =>
         \A t \in tenants' \ tenants : last'.body.tenant.plan = t.plan]_vars

\* C13 as stated: after a reset_password that stored a non-empty password n, a
\* second reset_password for the same user passes the current-password check when
\* its current password is n.
C13_SecondResetAccepted ==
    [][last'.op = "reset_password" /\ resp'.status = 200 =>
         \A t \in tokens, u \in UserIds, c \in Passwords, n \in Passwords \ {""} :
            ResetPassword(t, u, c, n) =>
               (~ResetNeedsCurrent(UserById(u)) \/ ResetCurrentOk(UserById(u), n))']_vars

\* C14: change_password answers 404 for an absent user; otherwise it changes the
\* password exactly when the current password verifies against the stored hash,
\* whatever must_reset_password is: a failed check answers 400 and leaves the hash
\* and the flag as they are, a success stores the new hash and clears the flag.
C14_ChangePassword ==
    [][last'.op = "change_password" =>
        \A t \in tokens, u \in UserIds, c \in Passwords, n \in Passwords :
          (ChangePassword(t, u, c, n) /\ UserExists(t.sub)) =>
             IF ~UserExists(u) THEN resp'.status = 404 /\ UNCHANGED <<db, tokens>>
             ELSE IF BcryptVerify(Truncate72(c), UserById(u).password_hash)
             THEN /\ resp'.status = 200
                  /\ users' = WithPassword(UserById(u), BcryptHash(n), FALSE)
             ELSE /\ resp' = [status |-> 400, detail |-> "Current password is incorrect"]
                  /\ UNCHANGED <<db, tokens>>]_vars

\* C14 witness: change_password was refused with 400 for a user who must reset.
C14_Witness ==
    /\ last.op = "change_password" /\ resp.status = 400
    /\ UserExists(last.target) /\ UserById(last.target).must_reset_password

\* C14 witness, success: change_password stored a new password and the flag is clear.
C14_WitnessChanged ==
    /\ last.op = "change_password" /\ resp.status = 200
    /\ UserById(last.target).password_hash = BcryptHash("pw")
    /\ ~UserById(last.target).must_reset_password

\* C15: forgot-password for an email of no user answers 204, the answer a known
\* email gets, and writes no reset token, attempts no delivery and changes no
\* table.
C15_ForgotUnknown ==
    [][last'.op = "forgot_password" =>
        \A e \in Emails, d \in BOOLEAN, m \in BOOLEAN :
           ForgotPassword(e, d, m) =>
              /\ ~EmailRegistered(e) =>
                    /\ resp' = [status |-> 204, detail |-> ""]
                    /\ UNCHANGED <<db, tokens, reset_tokens, outbox>>
              /\ (EmailRegistered(e) /\ ~d) => resp' = [status |-> 204, detail |-> ""]]_vars

\* C15 witness: a user exists, forgot-password was answered 204 for another
\* email, and no token and no delivery exist.
C15_Witness ==
    /\ last.op = "forgot_password" /\ last.target = 0 /\ resp.status = 204
    /\ users # {} /\ reset_tokens = {} /\ outbox = <<>>

\* C16: forgot-password for a known email commits exactly one new reset token of
\* that user, expiring one hour after now, and attempts one delivery of that
\* token; whether or not the delivery throws the answer is 204 and the token
\* stays; every delivery ever attempted is of a persisted token, and no token is
\* ever removed.
C16_ForgotKnown ==
    /\ [](\A i \in DOMAIN outbox : \E r \in reset_tokens : r.token = outbox[i].token)
    /\ [][reset_tokens \subseteq reset_tokens']_vars
    /\ [][last'.op = "forgot_password" =>
            \A e \in Emails, m \in BOOLEAN :
               (ForgotPassword(e, FALSE, m) /\ EmailRegistered(e)) =>
                  /\ resp' = [status |-> 204, detail |-> ""]
                  /\ \E r \in reset_tokens' \ reset_tokens :
                        /\ reset_tokens' = reset_tokens \cup {r}
                        /\ r.user_id = UserByEmail(e).id
                        /\ r.expires_at = now + 60
                        /\ \A q \in reset_tokens : q.token # r.token
                        /\ Len(outbox') = Len(outbox) + 1
                        /\ outbox'[Len(outbox')].token = r.token
                        /\ outbox'[Len(outbox')].email = e
                        /\ outbox'[Len(outbox')].sent = ~m
                  /\ UNCHANGED <<db, tokens>>]_vars

\* C16 witness: the mailer threw, the caller got 204 and the token is persisted.
C16_Witness ==
    /\ last.op = "forgot_password" /\ resp.status = 204
    /\ outbox # <<>> /\ ~outbox[Len(outbox)].sent
    /\ \E r \in reset_tokens :
          /\ r.token = outbox[Len(outbox)].token
          /\ r.user_id = last.target

\* The protected requests of SpecTime that carry the bearer string t.
AuthenticatedInTime(t) ==
    \/ \E u \in UserIds, n \in Passwords : AdminResetPassword(t, u, n)
    \/ \E u \in UserIds : DeleteUser(t, u)

\* C17: login and signup issue tokens that expire 1440 minutes after now; a
\* signed token is accepted by verify at every time before its expiry and
\* rejected at every time after it; the resolver returns no principal for an
\* expired token, and a protected request that carries one is answered 401 and
\* changes nothing.
C17_TokenExpiry ==
    /\ [](\A t \in tokens :
            /\ now < t.exp => VerifyAccessToken(t)
            /\ now > t.exp => ~VerifyAccessToken(t) /\ ~GetCurrentUser(t).ok)
    /\ [][\A t \in tokens' \ tokens : t.exp = now + 1440]_vars
    /\ [][\A t \in tokens :
            (now > t.exp /\ AuthenticatedInTime(t)) =>
               /\ resp' = [status |-> 401, detail |-> "Invalid or expired token"]
               /\ UNCHANGED <<db, tokens>>]_vars

\* C17 witness: after the token of an existing user expired, a protected request
\* was answered 401 "Invalid or expired token".
C17_Witness ==
    /\ last.op \in {"admin_reset_password", "delete_user"}
    /\ resp = [status |-> 401, detail |-> "Invalid or expired token"]
    /\ tokens # {}
    /\ \A t \in tokens : now > t.exp /\ UserExists(t.sub)

\* C18: decoding a token that login or signup just issued returns the sub,
\* tenant_id, email and role it was issued for plus the expiry; a bearer string
\* with an altered claim or signed with another secret is rejected by the
\* decoder, yields no principal, and a protected request that carries it is
\* answered 401 and changes nothing.
C18_TokenRoundTrip ==
    /\ [][(/\ last'.op \in {"login", "signup"} /\ resp'.status \in {200, 201}
            /\ \/ \E e \in Emails, p \in Passwords : Login(e, p)
               \/ \E e \in Emails, p \in Passwords, pl \in Plans : Signup(e, p, pl, "none")) =>
            \E u \in users', k \in tokens' :
               /\ u.id = last'.target
               /\ JwtDecode(k, "JWT_SECRET") =
                     [ok |-> TRUE, error |-> "",
                      payload |-> [sub |-> u.id, tenant_id |-> u.tenant_id,
                                   email |-> u.email, role |-> u.role,
                                   exp |-> now + 1440]]]_vars
    /\ [](\A f \in Forgeries \cup {BadToken} :
            /\ ~JwtDecode(f, "JWT_SECRET").ok
            /\ ~VerifyAccessToken(f)
            /\ ~GetCurrentUser(f).ok)
    /\ [][\A f \in Forgeries : AuthenticatedInTime(f) =>
            /\ resp' = [status |-> 401, detail |-> "Invalid or expired token"]
            /\ UNCHANGED <<db, tokens>>]_vars

\* C18 witness: a token was issued and is not expired, so forgeries of it that
\* carry an existing user's id exist, and a protected request was answered 401.
C18_Witness ==
    /\ last.op \in {"admin_reset_password", "delete_user"}
    /\ resp = [status |-> 401, detail |-> "Invalid or expired token"]
    /\ tokens # {}
    /\ \A t \in tokens : now < t.exp /\ UserExists(t.sub)

\* C19 as stated: in every reachable state each tenant has at most one
\* subscription row.
C19_OneSubscriptionPerTenant ==
    \A q \in subscriptions, r \in subscriptions : q.tenant_id = r.tenant_id => q = r

AdminResetDone(u, n) ==
    /\ last'.op \in {"admin_reset_password", "users_reset_password"}
    /\ resp'.status = 200
    /\ \E t \in tokens : AdminResetPassword(t, u, n) \/ UsersAdminResetPassword(t, u, n)

\* C21 as stated: after an ADMIN's reset gave user u a new password, a password
\* that login accepted before and that differs from the new one is refused by
\* login and as current password by reset_password and change_password.
C21_OldPasswordRejected ==
    [][\A u \in UserIds, n \in NewPasswords :
          AdminResetDone(u, n) =>
             \A p \in NewPasswords \ {n} :
                ~LoginRejects(UserById(u).email, p) =>
                   /\ LoginRejects(UserById(u).email, p)'
                   /\ ~ResetCurrentOk(UserById(u), p)'
                   /\ ~ChangeCurrentOk(UserById(u), p)']_vars


\* C22: logout answers 204 and changes no table, no reset token and no signed
\* token, so the resolver gives every bearer string the answer it gave before;
\* and a signed token the resolver accepted stops being accepted only when it
\* has expired or its user's row is gone.
C22_LogoutNoOp ==
    /\ [][(last'.op = "logout" /\ Logout /\ ~Tick) =>
            /\ resp' = [status |-> 204, detail |-> ""]
            /\ UNCHANGED <<db, tokens, reset_tokens, outbox, now>>
            /\ \A t \in tokens \cup Forgeries : GetCurrentUser(t)' = GetCurrentUser(t)]_vars
    /\ [][\A t \in tokens :
            (GetCurrentUser(t).ok /\ ~GetCurrentUser(t).ok') =>
               (now' > t.exp \/ ~UserExists(t.sub)')]_vars

\* C22 witness: after a logout a signed token is still accepted, while another
\* signed token is no longer, its user being deleted.
C22_Witness ==
    /\ last.op = "logout" /\ resp.status = 204
    /\ \E t \in tokens : GetCurrentUser(t).ok
    /\ \E t \in tokens : ~UserExists(t.sub)


\* C23: for accounts, POST with a valid token and an existing tenant answers 201
\* and adds one row with a never-used id under body.tenantId; GET by id answers
\* 200 with the row of that id when it exists and 404 otherwise; the list of a
\* tenantId is the rows of that tenant; a row keeps its id and tenant_id through
\* every step and leaves the table only by a DELETE of its id answered 204,
\* after which the id is in no row and is never handed out again; PUT keeps
\* the tenant_id, and on an absent id answers 404 and changes no row.
C23_AccountLifecycle ==
    /\ [](\A a \in accounts : a.id <= nextId.accounts)
    /\ [][nextId.accounts <= nextId'.accounts]_vars
    /\ [][last'.op = "create_account" =>
            \A t \in tokens, tid \in TenantIds, st \in AccountStatuses :
               (GetCurrentUser(t).ok /\ TenantExists(tid) /\ CreateAccount(t, tid, "n1", st)) =>
                  /\ resp'.status = 201
                  /\ \E r \in accounts' \ accounts :
                        /\ accounts' = accounts \cup {r}
                        /\ r.tenant_id = tid /\ r.id > nextId.accounts
                        /\ last'.body.account.id = r.id
                        /\ last'.body.account.tenantId = tid]_vars
    /\ [][last'.op = "get_account" =>
            \A t \in tokens, id \in AccountIds :
               (last'.target = id /\ GetCurrentUser(t).ok /\ GetAccount(t, id)) =>
                  /\ IF \E a \in accounts : a.id = id
                     THEN /\ resp'.status = 200
                          /\ last'.body.account.id = id
                          /\ \E a \in accounts :
                                /\ a.id = id
                                /\ last'.body.account.tenantId = a.tenant_id
                                /\ last'.body.account.name = a.name
                     ELSE resp' = [status |-> 404, detail |-> "Account not found"]
                  /\ UNCHANGED <<db, accounts>>]_vars
    /\ [][last'.op = "get_accounts" =>
            \A t \in tokens, tid \in TenantIds :
               (GetCurrentUser(t).ok /\ GetAccounts(t, tid)) =>
                  /\ resp'.status = 200
                  /\ {d.id : d \in last'.body.list} =
                        {a.id : a \in {r \in accounts : r.tenant_id = tid}}
                  /\ \A d \in last'.body.list : d.tenantId = tid
                  /\ UNCHANGED <<db, accounts>>]_vars
    /\ [][\A a \in accounts :
            \/ \E b \in accounts' : b.id = a.id /\ b.tenant_id = a.tenant_id
            \/ /\ last'.op = "delete_account" /\ resp'.status = 204
               /\ last'.target = a.id]_vars
    /\ [][(last'.op = "delete_account" /\ resp'.status = 204) =>
            \A t \in tokens, id \in AccountIds :
               (last'.target = id /\ GetCurrentUser(t).ok /\ DeleteAccount(t, id, FALSE)) =>
                  /\ \A a \in accounts' : a.id # id
                  /\ accounts' = {a \in accounts : a.id # id}]_vars
    /\ [][last'.op = "update_account" =>
            \A t \in tokens, id \in AccountIds, tid \in TenantIds, n \in AccountNames :
               (/\ last'.target = id /\ GetCurrentUser(t).ok
                /\ UpdateAccount(t, id, tid, n, "won")) =>
                  IF \E a \in accounts : a.id = id
                  THEN /\ resp'.status = 200
                       /\ {a.id : a \in accounts'} = {a.id : a \in accounts}
                       /\ last'.body.account.id = id
                       /\ last'.body.account.name = n
                  ELSE /\ resp' = [status |-> 404, detail |-> "Account not found"]
                       /\ UNCHANGED <<db, accounts>>]_vars

\* C23 witness: GET by id answered 404 for the id of a deleted account while
\* another account, updated since its creation, is still in the table.
C23_Witness ==
    /\ last.op = "get_account" /\ resp.status = 404
    /\ last.target <= nextId.accounts
    /\ \E a \in accounts : a.name = "n2"

\* C23 witness, list: the list of a tenant was returned with an updated account
\* in it after another account had been deleted.
C23_WitnessListed ==
    /\ last.op = "get_accounts" /\ resp.status = 200
    /\ \E d \in last.body.list : d.name = "n2"
    /\ nextId.accounts > Cardinality(accounts)


\* C24 as stated: a reset_password request that skipped the current-password
\* check writes only while must_reset_password is still true, and one that
\* verified a current password writes only while the hash it verified against
\* is still the stored one.
C24_ResetCheckThenUpdateAtomic ==
    [][\A c \in Clients :
          (conns[c].pc = "update" /\ RpUpdate(c) /\ UserExists(conns[c].user)) =>
             IF conns[c].seen.must_reset_password
             THEN UserById(conns[c].user).must_reset_password
             ELSE UserById(conns[c].user).password_hash = conns[c].seen.password_hash]_vars


\* C25 as stated: a reset_password or change_password request that changes the
\* password of user u is made by the principal whose id is u.
C25_SelfServiceOwnPassword ==
    [][(/\ last'.op \in {"reset_password", "change_password"} /\ resp'.status = 200
        /\ users' # users) =>
         \A t \in tokens, u \in UserIds :
            (/\ last'.target = u /\ GetCurrentUser(t).ok
             /\ \E c \in Passwords, n \in Passwords :
                   ResetPassword(t, u, c, n) \/ ChangePassword(t, u, c, n)) =>
               GetCurrentUser(t).principal.id = u]_vars


\* C26: a user's must_reset_password turns true only in a successful admin reset
\* of that user (either endpoint) and turns false only in a successful
\* reset_password or change_password of that user; login, logout,
\* forgot-password, signup, PATCH /users/{id} and every request that fails leave
\* the must_reset_password and the password_hash of every existing user as they
\* are.
C26_PasswordLifecycle ==
    [][\A u \in users, v \in users' :
          v.id = u.id =>
             /\ (~u.must_reset_password /\ v.must_reset_password) =>
                   /\ last'.op \in {"admin_reset_password", "users_reset_password"}
                   /\ resp'.status = 200 /\ last'.target = u.id
             /\ (u.must_reset_password /\ ~v.must_reset_password) =>
                   /\ last'.op \in {"reset_password", "change_password"}
                   /\ resp'.status = 200 /\ last'.target = u.id
             /\ (\/ last'.op \in {"login", "logout", "forgot_password", "signup", "update_user"}
                 \/ resp'.status \notin {200, 201, 204}) =>
                   /\ v.must_reset_password = u.must_reset_password
                   /\ v.password_hash = u.password_hash]_vars

\* C26 witness: forgot-password wrote a reset token for a user who must reset and
\* who still must, with the hash as it was; another user's flag is clear and
\* the hash is one that only reset_password or change_password stores.
C26_Witness ==
    /\ last.op = "forgot_password" /\ resp.status = 204
    /\ \E u \in users :
          /\ u.id = last.target /\ u.must_reset_password
          /\ u.password_hash = BcryptHash("pw")
          /\ \E r \in reset_tokens : r.user_id = u.id
    /\ \E u \in users : ~u.must_reset_password /\ u.password_hash = BcryptHash("")


\* C27: forgot-password changes no user row and no other table; it only adds
\* rows to password_reset_tokens, one per request for a known email, and every
\* earlier row stays as it is; no other request changes that table; and a
\* password changes only in a request that passed its own checks (a valid
\* bearer token and, for reset_password, the flag or the current password, for
\* change_password the current password, for the admin resets the ADMIN role),
\* whatever reset tokens exist.
C27_ResetTokensInert ==
    /\ [][reset_tokens \subseteq reset_tokens'
          /\ (reset_tokens' # reset_tokens => last'.op = "forgot_password")]_vars
    /\ [][last'.op = "forgot_password" =>
            \A e \in Emails, d \in BOOLEAN :
               ForgotPassword(e, d, FALSE) =>
                  /\ UNCHANGED <<db, tokens, accounts>>
                  /\ IF EmailRegistered(e) /\ ~d
                     THEN \E r \in reset_tokens' \ reset_tokens :
                             /\ reset_tokens' = reset_tokens \cup {r}
                             /\ r.user_id = UserByEmail(e).id
                     ELSE reset_tokens' = reset_tokens]_vars
    /\ [][users' # users =>
            \A t \in Bearers, u \in UserIds :
               last'.target = u =>
                  /\ last'.op = "reset_password" =>
                        \A c \in Passwords, n \in Passwords :
                           ResetPassword(t, u, c, n) =>
                              /\ GetCurrentUser(t).ok
                              /\ \/ UserById(u).must_reset_password
                                 \/ ResetCurrentOk(UserById(u), c)
                  /\ last'.op = "change_password" =>
                        \A c \in Passwords, n \in Passwords :
                           ChangePassword(t, u, c, n) =>
                              /\ GetCurrentUser(t).ok
                              /\ ChangeCurrentOk(UserById(u), c)
                  /\ last'.op \in {"admin_reset_password", "users_reset_password"} =>
                        \A n \in Passwords :
                           (AdminResetPassword(t, u, n) \/ UsersAdminResetPassword(t, u, n)) =>
                              /\ GetCurrentUser(t).ok
                              /\ GetCurrentUser(t).principal.role = "ADMIN"]_vars

\* C27 witness: forgot-password ran twice for one user, both tokens are in the
\* table, and that user's password is still refused as current password.
C27_Witness ==
    /\ last.op = "forgot_password" /\ resp.status = 204
    /\ Cardinality({r \in reset_tokens : r.user_id = last.target}) = 2
    /\ UserExists(last.target)
    /\ UserById(last.target).password_hash = BcryptHash(GetPasswordHashInput("pw"))

\* C27 witness, no use: while reset tokens of a user exist, reset_password for
\* that user was refused with 400.
C27_WitnessRefused ==
    /\ last.op = "reset_password" /\ resp.status = 400
    /\ \E r \in reset_tokens : r.user_id = last.target


C29_SeatLimitEnforced ==
    \A t \in tenants, q \in subscriptions :
        q.tenant_id = t.id =>
           Cardinality({u \in users : u.tenant_id = t.id}) <= q.max_users


\* C30: every request returns each pooled connection it acquires and holds at most
\* one at a time, so that the connections checked out never exceed the pool
\* maximum of 10, equal the connections held by requests in flight, and are 0
\* when no request is in flight.
C30_PoolBounded ==
    /\ CheckedOut <= PoolMax
    /\ CheckedOut = Held
    /\ Held <= RequestsInFlight
    /\ RequestsInFlight = 0 => CheckedOut = 0
====
